---- MODULE Spec2Model ----
(***************************************************************************)
(* Model of the useWindowedExposure hook (src/hooks/useWindowedExposure.ts) *)
(* of react-qr-scanner: the requestAnimationFrame loop, the exposure       *)
(* controller (adjustExposure and the completion of applyConstraints), and *)
(* the track attach/detach effect.                                         *)
(*                                                                         *)
(* Numbers that are JavaScript doubles in the source (exposure times) are  *)
(* exact non-negative rationals <<n, d>> here; d = 0 encodes the IEEE      *)
(* values the code can produce by dividing by an APL of 0: <<1, 0>> is     *)
(* Infinity and <<0, 0>> is NaN.  Date.now() is a monotone clock `now`.    *)
(* The options object is the default one: targetAPL, updateInterval and   *)
(* getWindow have their default values in every render.                    *)
(* Spec is the hook; WindowSpec and ApproxSpec run defaultWindow and       *)
(* approxAPL on their own, on arguments drawn from bounded sets.           *)
(***************************************************************************)
EXTENDS Integers, Sequences, FiniteSets, TLC

TARGET_APL == 100
MIN_APL_DIFFERENCE == 5
EXPOSURE_TTL_MS == 200
DEFAULT_EXPOSURE_TIME == 500

\* ---- bounds of the model ----
StartNow == 1000      \* Date.now() when the hook mounts
TimeStep == 100       \* granularity of the clock
MaxNow == 1300        \* the clock stops here
MaxPending == 2       \* cap on outstanding exposure-time requests
MaxDim == 9           \* largest frame width and height given to defaultWindow
MaxSide == 2          \* largest ImageData width and height given to approxAPL

targetAPL == TARGET_APL
updateInterval == EXPOSURE_TTL_MS

\* ---- inputs ----
\* MediaStreamTrack objects a caller may hand to setVideoTrackRef, with the
\* capabilities getCapabilities() reports for each; 0 is null.
Capabilities ==
    <<[hasExposureTime |-> TRUE,  min |-> 50, max |-> 10000, exposureMode |-> {"continuous", "manual"}],
      [hasExposureTime |-> TRUE,  min |-> 50, max |-> 1000,  exposureMode |-> {"continuous", "manual"}],
      [hasExposureTime |-> FALSE, min |-> 0,  max |-> 0,     exposureMode |-> {"continuous", "manual"}],
      [hasExposureTime |-> TRUE,  min |-> 50, max |-> 1000,  exposureMode |-> {"continuous"}]>>
Tracks == DOMAIN Capabilities
\* values approxAPL may return for a frame
APLs == {0, 40, 95, 98, 105}
\* what a processFrame run finds: readyState below HAVE_ENOUGH_DATA, getContext
\* returning null, a window of no pixels, or a window with pixels
Frames == {"notReady", "noContext", "empty", "ok"}

\* ---- JavaScript number arithmetic on <<n, d>> ----
RECURSIVE GCD(_, _)
GCD(a, b) == IF b = 0 THEN a ELSE GCD(b, a % b)

Norm(n, d) ==
    IF d = 0 THEN (IF n = 0 THEN <<0, 0>> ELSE <<1, 0>>)
    ELSE LET g == GCD(n, d) IN <<n \div g, d \div g>>

Num(n) == <<n, 1>>
IsNaN(x) == x = <<0, 0>>
Mul(x, y) == Norm(x[1] * y[1], x[2] * y[2])
Div(a, b) == Norm(a, b)
\* x < y as JavaScript compares numbers (false when either is NaN)
Lt(x, y) ==
    /\ ~IsNaN(x) /\ ~IsNaN(y)
    /\ x # y
    /\ IF x[2] = 0 THEN FALSE
       ELSE IF y[2] = 0 THEN TRUE
       ELSE x[1] * y[2] < y[1] * x[2]
Le(x, y) == ~IsNaN(x) /\ ~IsNaN(y) /\ (x = y \/ Lt(x, y))
\* x == y on numbers
NumEq(x, y) == ~IsNaN(x) /\ ~IsNaN(y) /\ x = y
MathMin(x, y) == IF IsNaN(x) \/ IsNaN(y) THEN <<0, 0>> ELSE IF Lt(y, x) THEN y ELSE x
MathMax(x, y) == IF IsNaN(x) \/ IsNaN(y) THEN <<0, 0>> ELSE IF Lt(x, y) THEN y ELSE x

Add(x, y) == Norm(x[1] * y[2] + y[1] * x[2], x[2] * y[2])
\* x - y for y <= x
Sub(x, y) == Norm(x[1] * y[2] - y[1] * x[2], x[2] * y[2])
MinOf(a, b) == IF b < a THEN b ELSE a

\* ---- defaultWindow (lines 28-36) ----
WINDOW_RATIO == <<1, 5>>

\* mutant: the offset adds the window size instead of subtracting it
defaultWindow_OffCentre(width, height) ==
    LET windowSize == Mul(Num(MinOf(width, height)), WINDOW_RATIO)
    IN  [startX |-> Mul(Add(Num(width), windowSize), <<1, 2>>),
         startY |-> Mul(Add(Num(height), windowSize), <<1, 2>>),
         width |-> windowSize,
         height |-> windowSize]

defaultWindow(width, height) ==
    LET windowSize == Mul(Num(MinOf(width, height)), WINDOW_RATIO)
    IN  [startX |-> Mul(Sub(Num(width), windowSize), <<1, 2>>),
         startY |-> Mul(Sub(Num(height), windowSize), <<1, 2>>),
         width |-> windowSize,
         height |-> windowSize]

\* ---- approxAPL (lines 172-194) ----
\* ImageData contents: the R, G, B bytes of pixel p of an image
Images == {"grey", "stripes"}
Pixel(image, p) ==
    IF image = "grey" THEN <<100, 100, 100>>
    ELSE IF p % 2 = 0 THEN <<255, 255, 255>> ELSE <<0, 0, 0>>
\* values of the numSamples parameter; 1000 is its default
SampleCounts == {-1, 0, 1, 3, 1000}

\* line 187, in units of 1/10000
Luma(rgb) == 2126 * rgb[1] + 7152 * rgb[2] + 722 * rgb[3]

\* mutant: numSamples is not capped by the number of pixels
EffectiveSamples_NoCap(totalPixels, numSamples) == numSamples

\* line 179
EffectiveSamples(totalPixels, numSamples) == MinOf(totalPixels, numSamples)

VARIABLES
    mounted,                \* the component using the hook is mounted
    videoElement,           \* useState: 0 is null, 1 an element
    canvasElement,          \* useState: FALSE is null
    videoTrack,             \* useState: 0 is null, else a track of Tracks
    currentAPLRef,
    lastExposureUpdateRef,
    adjustingExposure,
    exposureControlAllowed,
    exposureTimeRef,
    rafQueue,               \* callbacks requestAnimationFrame holds
    pending,                \* exposure-time applyConstraints promises not yet settled
    modeRequests,           \* exposureMode applyConstraints promises not yet settled
    unhandled,              \* a promise was rejected that has no rejection handler
    consoleError,           \* last console.error
    commits,                \* times at which a request's then-handler ran
    now,                    \* Date.now()
    calc                    \* a call of defaultWindow or approxAPL on its own

vars == <<mounted, videoElement, canvasElement, videoTrack, currentAPLRef,
          lastExposureUpdateRef, adjustingExposure, exposureControlAllowed,
          exposureTimeRef, rafQueue, pending, modeRequests, unhandled,
          consoleError, commits, now, calc>>

hookVars == <<mounted, videoElement, canvasElement, videoTrack, currentAPLRef,
              lastExposureUpdateRef, adjustingExposure, exposureControlAllowed,
              exposureTimeRef, rafQueue, pending, modeRequests, unhandled,
              consoleError, commits, now>>

controlVars == <<currentAPLRef, lastExposureUpdateRef, adjustingExposure,
                 exposureTimeRef, pending, commits>>

\* ---- the frame loop (third effect) ----
\* The closure requestAnimationFrame holds: what processFrame captured from
\* the render whose effect created it.  cur: its id is the one stored in
\* animationFrameIdRef.  live: the effect that created it has not been
\* cleaned up.
Callback(cur) ==
    [cur |-> cur, live |-> TRUE, videoElement |-> videoElement,
     canvasElement |-> canvasElement, videoTrack |-> videoTrack]

\* animationFrameIdRef.current = requestAnimationFrame(cb)
RequestAnimationFrame(queue, cb) ==
    {[c EXCEPT !.cur = FALSE] : c \in queue} \cup {[cb EXCEPT !.cur = TRUE]}

\* mutant: the cleanup cancels nothing
CancelAnimationFrame_Noop(queue) == queue

\* cancelAnimationFrame(animationFrameIdRef.current)
CancelAnimationFrame(queue) == {c \in queue : ~c.cur}

\* cleanup of the frame-loop effect
LoopCleanup(queue) == {[c EXCEPT !.live = FALSE] : c \in CancelAnimationFrame(queue)}

\* ---- the controller ----
\* mutant: the gate forgets the adjustingExposure flag
exposureIsStale_NoMutex ==
    now - lastExposureUpdateRef > updateInterval

\* mutant: the gate forgets the time of the last update
exposureIsStale_NoInterval ==
    ~adjustingExposure

\* mutant: the gate opens already at updateInterval
exposureIsStale_Inclusive ==
    /\ ~adjustingExposure
    /\ now - lastExposureUpdateRef >= updateInterval

exposureIsStale ==
    /\ ~adjustingExposure
    /\ now - lastExposureUpdateRef > updateInterval

\* mutant: the dead-band includes its bounds
aplInTargetRange_Inclusive(apl) ==
    apl >= targetAPL - MIN_APL_DIFFERENCE /\ apl <= targetAPL + MIN_APL_DIFFERENCE

aplInTargetRange(apl) ==
    apl > targetAPL - MIN_APL_DIFFERENCE /\ apl < targetAPL + MIN_APL_DIFFERENCE

\* mutant: the proportional step without the clamp
NewExposureTime_NoClamp(current, apl, caps) ==
    Mul(current, Div(targetAPL, apl))

\* lines 135-141: the proportional step, clamped to the capabilities
NewExposureTime(current, apl, caps) ==
    MathMax(Num(caps.min), MathMin(Num(caps.max), Mul(current, Div(targetAPL, apl))))

\* mutant: no early return when the clamped value is the current one
adjustExposure_NoIdempotence(track, apl) ==
    LET caps == Capabilities[track]
        newExposureTime == NewExposureTime(exposureTimeRef, apl, caps)
    IN  IF \/ ~caps.hasExposureTime
           \/ ~exposureControlAllowed
           \/ ~exposureIsStale
           \/ aplInTargetRange(apl)
        THEN UNCHANGED <<adjustingExposure, pending>>
        ELSE /\ adjustingExposure' = TRUE
             /\ pending' = Append(pending,
                    [track |-> track, exposureTime |-> newExposureTime,
                     apl |-> apl, from |-> exposureTimeRef])

\* adjustExposure(apl) of the render that captured track
adjustExposure(track, apl) ==
    LET caps == Capabilities[track]
        newExposureTime == NewExposureTime(exposureTimeRef, apl, caps)
    IN  IF \/ ~caps.hasExposureTime
           \/ ~exposureControlAllowed
           \/ ~exposureIsStale
           \/ aplInTargetRange(apl)
        THEN UNCHANGED <<adjustingExposure, pending>>
        ELSE IF NumEq(newExposureTime, exposureTimeRef)
        THEN UNCHANGED <<adjustingExposure, pending>>
        ELSE /\ adjustingExposure' = TRUE
             /\ pending' = Append(pending,
                    [track |-> track, exposureTime |-> newExposureTime,
                     apl |-> apl, from |-> exposureTimeRef])

\* One run of a processFrame callback on a frame of Frames; apl is what
\* approxAPL returns for it.  getImageData throws on a window of no pixels.
processFrame(cb, frame, apl) ==
    /\ cb \in rafQueue
    /\ Len(pending) < MaxPending
    /\ LET rest == rafQueue \ {cb} IN
       IF cb.videoElement = 0 \/ cb.videoTrack = 0
       THEN \* line 88: returns without scheduling another frame
            /\ rafQueue' = rest
            /\ UNCHANGED controlVars
       ELSE IF cb.canvasElement /\ frame \in {"empty", "ok"} /\ exposureIsStale
       THEN IF frame = "ok"
            THEN /\ currentAPLRef' = apl
                 /\ adjustExposure(cb.videoTrack, apl)
                 /\ rafQueue' = RequestAnimationFrame(rest, cb)
                 /\ UNCHANGED <<lastExposureUpdateRef, exposureTimeRef, commits>>
            ELSE \* getImageData throws: line 109 is not reached
                 /\ rafQueue' = rest
                 /\ UNCHANGED controlVars
       ELSE /\ rafQueue' = RequestAnimationFrame(rest, cb)
            /\ UNCHANGED controlVars
    /\ UNCHANGED <<mounted, videoElement, canvasElement, videoTrack,
                   exposureControlAllowed, modeRequests, unhandled, consoleError, now, calc>>

\* mutant: the then-handler leaves the flag set
ApplySuccess_KeepsFlag(i) ==
    /\ i \in DOMAIN pending
    /\ exposureTimeRef' = pending[i].exposureTime
    /\ lastExposureUpdateRef' = now
    /\ pending' = SubSeq(pending, 1, i - 1) \o SubSeq(pending, i + 1, Len(pending))
    /\ commits' = Append(commits, now)
    /\ UNCHANGED <<mounted, videoElement, canvasElement, videoTrack, adjustingExposure,
                   currentAPLRef, exposureControlAllowed, rafQueue, modeRequests, unhandled,
                   consoleError, now, calc>>

\* the then-handler of request i (lines 151-155)
ApplySuccess(i) ==
    /\ i \in DOMAIN pending
    /\ exposureTimeRef' = pending[i].exposureTime
    /\ lastExposureUpdateRef' = now
    /\ adjustingExposure' = FALSE
    /\ pending' = SubSeq(pending, 1, i - 1) \o SubSeq(pending, i + 1, Len(pending))
    /\ commits' = Append(commits, now)
    /\ UNCHANGED <<mounted, videoElement, canvasElement, videoTrack,
                   currentAPLRef, exposureControlAllowed, rafQueue, modeRequests, unhandled,
                   consoleError, now, calc>>

\* mutant: the catch-handler stamps the update time
ApplyFailure_Stamps(i) ==
    /\ i \in DOMAIN pending
    /\ consoleError' = "adjust"
    /\ lastExposureUpdateRef' = now
    /\ pending' = SubSeq(pending, 1, i - 1) \o SubSeq(pending, i + 1, Len(pending))
    /\ UNCHANGED <<mounted, videoElement, canvasElement, videoTrack,
                   currentAPLRef, adjustingExposure,
                   exposureControlAllowed, exposureTimeRef, rafQueue, modeRequests, unhandled,
                   commits, now, calc>>

\* the catch-handler of request i (lines 156-158)
ApplyFailure(i) ==
    /\ i \in DOMAIN pending
    /\ consoleError' = "adjust"
    /\ pending' = SubSeq(pending, 1, i - 1) \o SubSeq(pending, i + 1, Len(pending))
    /\ UNCHANGED <<mounted, videoElement, canvasElement, videoTrack,
                   currentAPLRef, lastExposureUpdateRef, adjustingExposure,
                   exposureControlAllowed, exposureTimeRef, rafQueue, modeRequests, unhandled,
                   commits, now, calc>>

\* ---- the track effect (second effect) ----
\* mutant: the effect does not look at exposureMode
Supported_NoModeCheck(track) ==
    Capabilities[track].hasExposureTime

\* line 63
Supported(track) ==
    Capabilities[track].hasExposureTime /\ "manual" \in Capabilities[track].exposureMode

\* cleanup for the old track (lines 77-83): its request joins the unsettled ones
TrackCleanup(old, modes) ==
    IF old = 0 THEN modes ELSE Append(modes, [track |-> old, mode |-> "continuous"])

\* mutant: the effect asks for manual mode whatever the capabilities
TrackEffect_Unconditional(track, modes) ==
    IF track # 0
    THEN Append(modes, [track |-> track, mode |-> "manual"])
    ELSE modes

\* the effect body for the new track (lines 63-71)
TrackEffect(track, modes) ==
    IF track # 0 /\ Supported(track)
    THEN Append(modes, [track |-> track, mode |-> "manual"])
    ELSE modes

\* An exposureMode request settles.  Neither effect attaches a handler to the
\* promise: a fulfilment changes nothing, a rejection is an unhandled one.
\* (Requests of an earlier run of the effect count as settled when the effect
\* runs again.)
ModeSuccess(i) ==
    /\ i \in DOMAIN modeRequests
    /\ modeRequests' = SubSeq(modeRequests, 1, i - 1) \o SubSeq(modeRequests, i + 1, Len(modeRequests))
    /\ UNCHANGED <<mounted, videoElement, canvasElement, videoTrack, exposureControlAllowed,
                   rafQueue, unhandled, consoleError, now, calc>>
    /\ UNCHANGED controlVars

ModeFailure(i) ==
    /\ i \in DOMAIN modeRequests
    /\ modeRequests' = SubSeq(modeRequests, 1, i - 1) \o SubSeq(modeRequests, i + 1, Len(modeRequests))
    /\ unhandled' = TRUE
    /\ UNCHANGED <<mounted, videoElement, canvasElement, videoTrack, exposureControlAllowed,
                   rafQueue, consoleError, now, calc>>
    /\ UNCHANGED controlVars

\* setVideoTrackRef(track), the render it causes and the effects of that render
setVideoTrackRef(track) ==
    /\ mounted
    /\ track # videoTrack
    /\ videoTrack' = track
    /\ modeRequests' = TrackEffect(track, TrackCleanup(videoTrack, <<>>))
    /\ IF track = 0
       THEN UNCHANGED <<exposureControlAllowed, consoleError>>
       ELSE IF Supported(track)
       THEN exposureControlAllowed' = TRUE /\ UNCHANGED consoleError
       ELSE exposureControlAllowed' = FALSE /\ consoleError' = "unsupported"
    /\ rafQueue' = RequestAnimationFrame(LoopCleanup(rafQueue),
                       [Callback(TRUE) EXCEPT !.videoTrack = track])
    /\ UNCHANGED <<mounted, videoElement, canvasElement, unhandled, now, calc>>
    /\ UNCHANGED controlVars

\* setVideoElementRef(el)
setVideoElementRef(el) ==
    /\ mounted
    /\ el # videoElement
    /\ videoElement' = el
    /\ rafQueue' = RequestAnimationFrame(LoopCleanup(rafQueue),
                       [Callback(TRUE) EXCEPT !.videoElement = el])
    /\ UNCHANGED <<mounted, canvasElement, videoTrack, exposureControlAllowed,
                   modeRequests, unhandled, consoleError, now, calc>>
    /\ UNCHANGED controlVars

\* setCanvasRef(el), and the first effect's setCanvasElement(createElement("canvas"))
setCanvasRef(el) ==
    /\ mounted
    /\ el # canvasElement
    /\ canvasElement' = el
    /\ rafQueue' = RequestAnimationFrame(LoopCleanup(rafQueue),
                       [Callback(TRUE) EXCEPT !.canvasElement = el])
    /\ UNCHANGED <<mounted, videoElement, videoTrack, exposureControlAllowed,
                   modeRequests, unhandled, consoleError, now, calc>>
    /\ UNCHANGED controlVars

\* the component unmounts: the cleanups of both effects run
Unmount ==
    /\ mounted
    /\ mounted' = FALSE
    /\ modeRequests' = TrackCleanup(videoTrack, <<>>)
    /\ rafQueue' = LoopCleanup(rafQueue)
    /\ UNCHANGED <<videoElement, canvasElement, videoTrack,
                   exposureControlAllowed, unhandled, consoleError, now, calc>>
    /\ UNCHANGED controlVars

\* time passes
Tick ==
    /\ now + TimeStep <= MaxNow
    /\ now' = now + TimeStep
    /\ UNCHANGED <<mounted, videoElement, canvasElement, videoTrack,
                   exposureControlAllowed, rafQueue, modeRequests, unhandled, consoleError,
                   calc>>
    /\ UNCHANGED controlVars

\* the state after the first render and its effects
HookInit ==
    /\ mounted = TRUE
    /\ videoElement = 0
    /\ canvasElement = FALSE
    /\ videoTrack = 0
    /\ currentAPLRef = TARGET_APL
    /\ lastExposureUpdateRef = 0
    /\ adjustingExposure = FALSE
    /\ exposureControlAllowed = FALSE
    /\ exposureTimeRef = Num(DEFAULT_EXPOSURE_TIME)
    /\ rafQueue = {[cur |-> TRUE, live |-> TRUE, videoElement |-> 0,
                    canvasElement |-> FALSE, videoTrack |-> 0]}
    /\ pending = <<>>
    /\ modeRequests = <<>>
    /\ unhandled = FALSE
    /\ consoleError = "none"
    /\ commits = <<>>
    /\ now = StartNow

NoCall == [op |-> "none"]

Init == HookInit /\ calc = NoCall

Next ==
    \/ \E cb \in rafQueue, frame \in Frames, apl \in APLs : processFrame(cb, frame, apl)
    \/ \E i \in DOMAIN pending : ApplySuccess(i)
    \/ \E i \in DOMAIN pending : ApplyFailure(i)
    \/ \E i \in DOMAIN modeRequests : ModeSuccess(i)
    \/ \E i \in DOMAIN modeRequests : ModeFailure(i)
    \/ \E track \in Tracks \cup {0} : setVideoTrackRef(track)
    \/ \E el \in {0, 1} : setVideoElementRef(el)
    \/ \E el \in BOOLEAN : setCanvasRef(el)
    \/ Unmount
    \/ Tick

Spec == Init /\ [][Next]_vars

\* ---- defaultWindow on its own ----
WindowInit ==
    /\ HookInit
    /\ calc \in {[op |-> "defaultWindow", width |-> w, height |-> h, done |-> FALSE,
                   result |-> defaultWindow(0, 0)] : w \in 0..MaxDim, h \in 0..MaxDim}

CallDefaultWindow ==
    /\ calc.op = "defaultWindow" /\ ~calc.done
    /\ calc' = [calc EXCEPT !.done = TRUE, !.result = defaultWindow(calc.width, calc.height)]
    /\ UNCHANGED hookVars

WindowNext == CallDefaultWindow

WindowSpec == WindowInit /\ [][WindowNext]_vars

\* ---- approxAPL on its own ----
\* the call's locals: pc is the place in the function, index the last value of
\* `index` (line 182), result the value returned
ApproxInit ==
    /\ HookInit
    /\ calc \in {[op |-> "approxAPL", image |-> img, width |-> w, height |-> h,
                   requested |-> n, pc |-> "entry", totalPixels |-> 0, numSamples |-> n,
                   sum |-> 0, count |-> 0, index |-> 0, result |-> Num(0)] :
                  img \in Images, w \in 0..MaxSide, h \in 0..MaxSide, n \in SampleCounts}

\* lines 175-179
ApproxEnter ==
    /\ calc.op = "approxAPL" /\ calc.pc = "entry"
    /\ calc' = [calc EXCEPT !.pc = "loop",
                            !.totalPixels = calc.width * calc.height,
                            !.numSamples = EffectiveSamples(calc.width * calc.height, calc.numSamples)]
    /\ UNCHANGED hookVars

\* one iteration of the loop (lines 181-191); p is Math.floor(Math.random() * totalPixels)
ApproxSample(p) ==
    /\ calc.op = "approxAPL" /\ calc.pc = "loop"
    /\ calc.count < calc.numSamples
    /\ calc' = [calc EXCEPT !.index = p * 4,
                            !.sum = calc.sum + Luma(Pixel(calc.image, p)),
                            !.count = calc.count + 1]
    /\ UNCHANGED hookVars

\* line 193
ApproxReturn ==
    /\ calc.op = "approxAPL" /\ calc.pc = "loop"
    /\ ~(calc.count < calc.numSamples)
    /\ calc' = [calc EXCEPT !.pc = "done",
                            !.result = IF calc.count > 0
                                       THEN Norm(calc.sum, calc.count * 10000)
                                       ELSE Num(0)]
    /\ UNCHANGED hookVars

ApproxNext ==
    \/ ApproxEnter
    \/ \E p \in 0..(calc.totalPixels - 1) : ApproxSample(p)
    \/ ApproxReturn

ApproxSpec == ApproxInit /\ [][ApproxNext]_vars

TypeOK ==
    /\ mounted \in BOOLEAN
    /\ videoElement \in {0, 1}
    /\ canvasElement \in BOOLEAN
    /\ videoTrack \in Tracks \cup {0}
    /\ currentAPLRef \in APLs \cup {TARGET_APL}
    /\ lastExposureUpdateRef \in 0..MaxNow
    /\ adjustingExposure \in BOOLEAN
    /\ exposureControlAllowed \in BOOLEAN
    /\ exposureTimeRef \in Nat \X Nat
    /\ now \in StartNow..MaxNow
\* ======================= properties =======================

\* the exposure range of a track that reports one
HasRange(track) == track # 0 /\ Capabilities[track].hasExposureTime
InRange(x, track) ==
    Le(Num(Capabilities[track].min), x) /\ Le(x, Num(Capabilities[track].max))

\* processFrame runs for cb on a frame with pixels and reaches adjustExposure(a)
CallsAdjust(cb, a) ==
    /\ processFrame(cb, "ok", a)
    /\ cb.videoElement # 0 /\ cb.videoTrack # 0 /\ cb.canvasElement
    /\ ~adjustingExposure
    /\ now - lastExposureUpdateRef > EXPOSURE_TTL_MS

\* C1: in every reachable state the current exposure time lies within
\* [exposureTime.min, exposureTime.max] of the attached track's capabilities.
C1_ExposureWithinCapabilities ==
    HasRange(videoTrack) => InRange(exposureTimeRef, videoTrack)

\* C2: at most one exposure-time request is outstanding at any time; a request
\* is issued only while adjustingExposure is false, and the flag is true once
\* it is issued.
C2_OneRequestOutstanding ==
    /\ [](Len(pending) <= 1)
    /\ [][Len(pending') > Len(pending) => ~adjustingExposure /\ adjustingExposure']_vars

C2_Witness ==
    /\ Len(pending) = 1 /\ adjustingExposure
    /\ now - lastExposureUpdateRef > EXPOSURE_TTL_MS
    /\ rafQueue # {}

\* C3: two successful adjustments that are consecutive in time commit
\* strictly more than updateInterval apart.
C3_RateCap ==
    \A k \in 1..(Len(commits) - 1) : commits[k + 1] - commits[k] > EXPOSURE_TTL_MS

C3_Witness == Len(commits) >= 2

\* C4: after an exposure-time apply fails the controller is Idle again: it is
\* never Adjusting with no request outstanding.
C4_IdleAfterFailure ==
    adjustingExposure => Len(pending) > 0

\* C5: only the success completion of an exposure-time apply changes
\* exposureTimeRef or lastExposureUpdateRef, and lastExposureUpdateRef never
\* decreases.
C5_OnlySuccessCommits ==
    [][/\ (exposureTimeRef' # exposureTimeRef \/ lastExposureUpdateRef' # lastExposureUpdateRef)
          => (Len(commits') = Len(commits) + 1 /\ Len(pending') = Len(pending) - 1)
       /\ lastExposureUpdateRef' >= lastExposureUpdateRef]_vars

\* a failure completion has run and left both values as they were initially
C5_Witness ==
    /\ consoleError = "adjust"
    /\ exposureTimeRef = Num(DEFAULT_EXPOSURE_TIME)
    /\ lastExposureUpdateRef = 0
    /\ commits = <<>>

\* C6: a call of adjustExposure with targetAPL - 5 < apl < targetAPL + 5 issues
\* no request and leaves adjusting false; at apl = targetAPL - 5 and
\* apl = targetAPL + 5 the dead-band does not apply: with control allowed and
\* room left in the range a request is issued.
C6_DeadBand ==
    [][\A cb \in rafQueue, a \in APLs : CallsAdjust(cb, a) =>
          /\ (a > TARGET_APL - MIN_APL_DIFFERENCE /\ a < TARGET_APL + MIN_APL_DIFFERENCE)
                => (pending' = pending /\ ~adjustingExposure')
          /\ ( /\ a \in {TARGET_APL - MIN_APL_DIFFERENCE, TARGET_APL + MIN_APL_DIFFERENCE}
               /\ exposureControlAllowed
               /\ HasRange(cb.videoTrack)
               /\ a < TARGET_APL => Lt(exposureTimeRef, Num(Capabilities[cb.videoTrack].max))
               /\ a > TARGET_APL => Lt(Num(Capabilities[cb.videoTrack].min), exposureTimeRef) )
                => (Len(pending') = Len(pending) + 1 /\ adjustingExposure')]_vars

\* the last frame sampled had an APL inside the dead-band while control was
\* possible, and nothing was issued
C6_Witness ==
    /\ currentAPLRef = 98
    /\ videoTrack # 0 /\ exposureControlAllowed /\ HasRange(videoTrack)
    /\ videoElement # 0 /\ canvasElement
    /\ pending = <<>> /\ ~adjustingExposure /\ commits = <<>>

\* C7: when the clamped new exposure equals the current exposure time, no
\* request is issued and adjusting is not set.
C7_Idempotence ==
    [][\A cb \in rafQueue, a \in APLs :
          ( /\ CallsAdjust(cb, a)
            /\ HasRange(cb.videoTrack)
            /\ NumEq(NewExposureTime(exposureTimeRef, a, Capabilities[cb.videoTrack]),
                     exposureTimeRef) )
          => (pending' = pending /\ ~adjustingExposure')]_vars

\* saturated at the maximum of track 2, then a darker frame was sampled
C7_Witness ==
    /\ videoTrack = 2 /\ exposureControlAllowed
    /\ exposureTimeRef = Num(Capabilities[2].max)
    /\ currentAPLRef = 95
    /\ pending = <<>> /\ ~adjustingExposure

\* C8: an issued request carries clamp(current * targetAPL / apl, min, max),
\* which lies in [min, max] for every apl outside the dead-band, apl = 0
\* included; target 100, apl 40, current 500 gives 1250 within [50, 10000]
\* and 1000 within [50, 1000].
C8_RequestIsClampedStep ==
    \A k \in DOMAIN pending :
        LET r == pending[k]
            lo == Capabilities[r.track].min
            hi == Capabilities[r.track].max
            raw == Norm(r.from[1] * TARGET_APL, r.from[2] * r.apl)
        IN  /\ InRange(r.exposureTime, r.track)
            /\ IF raw[2] = 0 \/ raw[1] > hi * raw[2] THEN r.exposureTime = Num(hi)
               ELSE IF raw[1] < lo * raw[2] THEN r.exposureTime = Num(lo)
               ELSE r.exposureTime = raw
            /\ (r.from = Num(500) /\ r.apl = 40 /\ lo = 50 /\ hi = 10000)
                  => r.exposureTime = Num(1250)
            /\ (r.from = Num(500) /\ r.apl = 40 /\ lo = 50 /\ hi = 1000)
                  => r.exposureTime = Num(1000)

C8_Witness ==
    /\ Len(pending) = 1
    /\ pending[1].from = Num(500) /\ pending[1].apl = 40
    /\ Capabilities[pending[1].track].max = 1000
    /\ pending[1].exposureTime = Num(1000)

\* C9: while a track without exposureTime or without "manual" in exposureMode
\* is attached, exposureControlAllowed is false, and no exposure-time request
\* is ever issued to such a track.
C9_UnsupportedTrack ==
    LET Lacks(t) == ~Capabilities[t].hasExposureTime
                    \/ "manual" \notin Capabilities[t].exposureMode
    IN  /\ (videoTrack # 0 /\ Lacks(videoTrack)) => ~exposureControlAllowed
        /\ \A k \in DOMAIN pending : ~Lacks(pending[k].track)

\* frames were sampled while an unsupported track was attached
C9_Witness ==
    /\ videoTrack \in {3, 4}
    /\ videoElement # 0 /\ canvasElement
    /\ currentAPLRef = 40
    /\ pending = <<>> /\ commits = <<>> /\ ~adjustingExposure

\* C10: once the frame-loop effect is cleaned up no processFrame of that loop
\* runs, and none at all after unmount; the cleanup leaves a dispatched
\* exposure-time request outstanding, and it can still complete.
C10_CancelStopsLoopOnly ==
    /\ [](\A cb \in rafQueue : cb.live)
    /\ [](~mounted => rafQueue = {})
    /\ [][(mounted' # mounted \/ videoTrack' # videoTrack \/ videoElement' # videoElement
             \/ canvasElement' # canvasElement) => pending' = pending]_vars
    /\ [](pending # <<>> => ENABLED (\E i \in DOMAIN pending : ApplySuccess(i)))

\* unmounted with a request still outstanding
C10_Witness ==
    ~mounted /\ rafQueue = {} /\ Len(pending) = 1 /\ adjustingExposure
\* C11: a completion of an exposure-time request that runs after the hook is
\* disposed (frame loop cancelled, track effect cleaned up) is a no-op: it
\* leaves exposureTimeRef and lastExposureUpdateRef unchanged.
C11_CompletionAfterDisposeIsNoOp ==
    [][~mounted => /\ exposureTimeRef' = exposureTimeRef
                   /\ lastExposureUpdateRef' = lastExposureUpdateRef]_vars

\* C12: a processFrame run on a frame whose window has no pixels raises nothing
\* and schedules the next tick, so the loop keeps running.
C12_DegenerateFrameSkipped ==
    [][\A cb \in rafQueue, a \in APLs :
          (processFrame(cb, "empty", a) /\ cb.videoElement # 0 /\ cb.videoTrack # 0)
          => \E c \in rafQueue' : c.cur /\ c.live]_vars

\* C13: for width > 0 and height > 0, defaultWindow returns a centred square
\* of side 0.2 * min(width, height) lying inside the frame.
C13_DefaultWindowInFrame ==
    (calc.op = "defaultWindow" /\ calc.done /\ calc.width > 0 /\ calc.height > 0) =>
        LET win == calc.result
            m == IF calc.width <= calc.height THEN calc.width ELSE calc.height
        IN  /\ win.width = win.height
            /\ 5 * win.width[1] = m * win.width[2]
            /\ Add(Add(win.startX, win.startX), win.width) = Num(calc.width)
            /\ Add(Add(win.startY, win.startY), win.height) = Num(calc.height)
            /\ Le(Num(0), win.startX) /\ Le(Add(win.startX, win.width), Num(calc.width))
            /\ Le(Num(0), win.startY) /\ Le(Add(win.startY, win.height), Num(calc.height))

C13_Witness ==
    /\ calc.op = "defaultWindow" /\ calc.done
    /\ calc.width = 7 /\ calc.height = 3
    /\ calc.result.width = <<3, 5>>

\* C14: approxAPL ends after reading exactly min(numSamples, width * height)
\* samples when that number is positive, never more than width * height, each
\* at a valid pixel index; when that number is 0 or less it reads nothing and
\* returns 0.
C14_SampleCount ==
    (calc.op = "approxAPL") =>
        LET pixels == calc.width * calc.height
            want == IF calc.requested < pixels THEN calc.requested ELSE pixels
        IN  /\ calc.count <= pixels
            /\ calc.count > 0 => want > 0 /\ calc.count <= want
            /\ calc.count > 0 => \E q \in 0..(pixels - 1) : calc.index = 4 * q
            /\ calc.pc = "done" => calc.count = (IF want > 0 THEN want ELSE 0)
            /\ (calc.pc = "done" /\ want <= 0) => calc.result = Num(0)
            /\ calc.pc # "done" => ENABLED ApproxNext

\* the default numSamples on a 2 x 2 image: four samples, then the return
C14_Witness ==
    /\ calc.op = "approxAPL" /\ calc.pc = "done"
    /\ calc.requested = 1000 /\ calc.width = 2 /\ calc.height = 2
    /\ calc.count = 4

\* C15: the success completion sets exposureTimeRef to the value sent in that
\* request and lastExposureUpdateRef to the time of the completion, and clears
\* adjusting, leaving no request outstanding.
C15_SuccessCommits ==
    [][Len(commits') = Len(commits) + 1 =>
          /\ Len(pending) = 1
          /\ exposureTimeRef' = pending[1].exposureTime
          /\ lastExposureUpdateRef' = now
          /\ ~adjustingExposure'
          /\ pending' = <<>>]_vars

C15_Witness ==
    /\ Len(commits) = 1
    /\ exposureTimeRef = Num(1250)
    /\ lastExposureUpdateRef = StartNow + TimeStep
    /\ ~adjustingExposure /\ pending = <<>>

\* a tick at which the staleness gate is closed
GateClosed == adjustingExposure \/ now - lastExposureUpdateRef <= EXPOSURE_TTL_MS

\* C16 as stated: on every tick at which adjusting is true or no more than
\* updateInterval has elapsed, processFrame samples nothing, does not call
\* adjustExposure, and schedules the next tick.
C16_SkipAndSchedule ==
    [][\A cb \in rafQueue, f \in Frames, a \in APLs :
          (GateClosed /\ processFrame(cb, f, a)) =>
              /\ UNCHANGED <<currentAPLRef, pending, adjustingExposure,
                             exposureTimeRef, lastExposureUpdateRef>>
              /\ \E c \in rafQueue' : c.cur]_vars

\* C16 amended: ... and schedules the next tick if the callback's video
\* element and track are non-null; otherwise it returns without scheduling.
C16_SkipAndScheduleIfAttached ==
    [][\A cb \in rafQueue, f \in Frames, a \in APLs :
          (GateClosed /\ processFrame(cb, f, a)) =>
              /\ UNCHANGED <<currentAPLRef, pending, adjustingExposure,
                             exposureTimeRef, lastExposureUpdateRef>>
              /\ IF cb.videoElement # 0 /\ cb.videoTrack # 0
                 THEN \E c \in rafQueue' : c.cur
                 ELSE rafQueue' = {}]_vars

\* a tick ran with the gate closed and no video element: nothing is scheduled
C16_Witness ==
    /\ mounted /\ videoElement = 0 /\ videoTrack # 0
    /\ adjustingExposure /\ Len(pending) = 1
    /\ rafQueue = {}

\* C17: after an attach exposureControlAllowed is true iff the track has
\* exposureTime and "manual" among its modes; then exactly one manual-mode
\* request is issued, to that track, otherwise none and the unsupported
\* condition is reported; no other step changes exposureControlAllowed.
C17_AttachDecidesControl ==
    [][/\ (videoTrack' # videoTrack /\ videoTrack' # 0) =>
            LET caps == Capabilities[videoTrack']
                ok == caps.hasExposureTime /\ "manual" \in caps.exposureMode
                manual == {k \in DOMAIN modeRequests' : modeRequests'[k].mode = "manual"}
            IN  /\ exposureControlAllowed' = ok
                /\ ok => /\ Cardinality(manual) = 1
                         /\ \A k \in manual : modeRequests'[k].track = videoTrack'
                /\ ~ok => manual = {} /\ consoleError' = "unsupported"
       /\ (videoTrack' = videoTrack) => exposureControlAllowed' = exposureControlAllowed]_vars

C17_Witness ==
    /\ videoTrack = 1 /\ exposureControlAllowed
    /\ modeRequests = <<[track |-> 1, mode |-> "manual"]>>

\* C18: every detach of an attached track issues one continuous-mode request to
\* that track, and a failure of that request is reported by the hook.
C18_RestoreReported ==
    [][/\ (videoTrack # 0 /\ (videoTrack' # videoTrack \/ mounted' # mounted)) =>
            Cardinality({k \in DOMAIN modeRequests' :
                modeRequests'[k] = [track |-> videoTrack, mode |-> "continuous"]}) = 1
       /\ (\E i \in DOMAIN modeRequests :
              modeRequests[i].mode = "continuous" /\ ModeFailure(i)) => ~unhandled']_vars

\* C19: the completion or failure of a request issued to a track that is no
\* longer the attached one leaves the exposure time and timestamp alone and
\* does not leave the controller Adjusting.
C19_StateScopedToAttachment ==
    [][\A i \in DOMAIN pending :
          ( /\ videoTrack # 0 /\ pending[i].track # videoTrack
            /\ (ApplySuccess(i) \/ ApplyFailure(i)) )
          => /\ exposureTimeRef' = exposureTimeRef
             /\ lastExposureUpdateRef' = lastExposureUpdateRef
             /\ ~adjustingExposure']_vars

\* C20: at most one processFrame callback is pending at any time, and a tick
\* whose video element and track are attached schedules exactly one next tick.
C20_OneCallbackLoopContinues ==
    /\ [](Cardinality(rafQueue) <= 1)
    /\ [][\A cb \in rafQueue, f \in Frames, a \in APLs :
             (processFrame(cb, f, a) /\ cb.videoElement # 0 /\ cb.videoTrack # 0)
             => Cardinality(rafQueue') = 1]_vars

\* the part of C20 about the queue alone
AtMostOneCallback == Cardinality(rafQueue) <= 1
====
